---- MODULE Spec2Model ----
(***************************************************************************)
(* Model of the Ranking component of js/lib.jsx: the category selection,   *)
(* the fetch issued by the effect, the arrival of the responses and the    *)
(* generateRanking computation (place labels and drop flags).              *)
(***************************************************************************)
EXTENDS Integers, Sequences, FiniteSets, Bags, TLC

VARIABLES
    categories,        \* prop: the selectable age classes
    events,            \* prop: the number of events that count (N)
    db,                \* what cgi-bin/cup-cgi answers for each age class
    selectedCategory,  \* useState('')
    isLoading,         \* useState(false)
    ranking,           \* useState([])
    inflight           \* fetches issued and not yet answered (bag of age classes)

vars == <<categories, events, db, selectedCategory, isLoading, ranking, inflight>>

----------------------------------------------------------------------------
(* Bounds of the model *)

MaxEntries == 3      \* athletes in one response
MaxResults == 4      \* event results of one athlete
MaxEvents == 4       \* the events prop ranges over -2..MaxEvents
MaxInFlight == 2     \* fetches outstanding at the same time
NumCategories == 2   \* age classes of the page in the selection scenario

CategoryNames == <<"H21", "D21", "H35", "D35">>
AthleteNames == <<"A", "B", "C", "D", "E">>
TotalValues == {30, 40, 50, 5001}
ScoreValues == {0, 70, 80, 90, 100}

----------------------------------------------------------------------------
(* Response payloads *)

\* A result of the JSON payload: the score field may be absent.
Scored(eventId, score) == [eventId |-> eventId, score |-> score]
Unscored(eventId) == [eventId |-> eventId]

HasScore(result) == "score" \in DOMAIN result

SeqsUpTo(S, n) == UNION {[1..k -> S] : k \in 0..n}

\* The results event eventId may have: any score, or none / zero / a score.
ScoredAt == [eventId \in 1..MaxResults |-> {Scored(eventId, s) : s \in ScoreValues}]

SparseAt ==
    [eventId \in 1..MaxResults |->
        {Unscored(eventId), Scored(eventId, 0), Scored(eventId, 100)}]

\* The results of events 1..k, one per event, in event order.
RECURSIVE ScoreListsOfLen(_, _)
ScoreListsOfLen(k, opt) ==
    IF k = 0 THEN {<<>>}
    ELSE {Append(sc, r) : sc \in ScoreListsOfLen(k - 1, opt), r \in opt[k]}

ScoreLists(opt) == UNION {ScoreListsOfLen(k, opt) : k \in 0..MaxResults}

RawEntry(name, totalScore, scores) ==
    [name |-> name, totalScore |-> totalScore, scores |-> scores]

\* Lists of athletes that differ in their totals, one scored event each.
PlaceInputs ==
    {[i \in 1..Len(ts) |-> RawEntry(AthleteNames[i], ts[i], <<Scored(1, ts[i])>>)] :
        ts \in SeqsUpTo(TotalValues, MaxEntries)}

\* One athlete with every combination of event scores.
DropInputs ==
    {<<RawEntry(AthleteNames[1], 270, sc)>> : sc \in ScoreLists(ScoredAt)}

\* One athlete with events that have no score, a zero score or a score.
SparseInputs ==
    {<<RawEntry(AthleteNames[1], 270, sc)>> : sc \in ScoreLists(SparseAt)}

\* Payloads of the selection scenario: none, one or two athletes.
PageInputs ==
    {<<>>,
     <<RawEntry("A", 40, <<Scored(1, 40)>>)>>,
     <<RawEntry("B", 50, <<Scored(1, 50)>>), RawEntry("C", 30, <<Scored(1, 30)>>)>>}

----------------------------------------------------------------------------
(* generateRanking *)

InitialPreviousScore == 5001

Max(a, b) == IF a > b THEN a ELSE b
Min(a, b) == IF a < b THEN a ELSE b

\* Array.prototype.slice(0, end): a negative end counts from the back.
Slice0(s, end) ==
    LET len == Len(s)
        final == IF end < 0 THEN Max(len + end, 0) ELSE Min(end, len)
    IN  SubSeq(s, 1, final)

Includes(s, v) == \E i \in 1..Len(s) : s[i] = v

\* The scores of the results, in order, keeping those with score > 0
\* (an absent score compares false).
RECURSIVE PositiveScores(_)
PositiveScores(scores) ==
    IF scores = <<>> THEN <<>>
    ELSE LET result == Head(scores)
             rest == PositiveScores(Tail(scores))
         IN  IF HasScore(result) /\ result.score > 0
             THEN <<result.score>> \o rest
             ELSE rest

\* sort((x, y) => y - x): descending order.
RECURSIVE InsertAsc(_, _)
InsertAsc(x, s) ==
    IF s = <<>> THEN <<x>>
    ELSE IF x <= Head(s) THEN <<x>> \o s
    ELSE <<Head(s)>> \o InsertAsc(x, Tail(s))

RECURSIVE SortAsc(_)
SortAsc(s) ==
    IF s = <<>> THEN <<>> ELSE InsertAsc(Head(s), SortAsc(Tail(s)))

RECURSIVE InsertDesc(_, _)
InsertDesc(x, s) ==
    IF s = <<>> THEN <<x>>
    ELSE IF x >= Head(s) THEN <<x>> \o s
    ELSE <<Head(s)>> \o InsertDesc(x, Tail(s))

RECURSIVE SortDesc(_)
SortDesc(s) ==
    IF s = <<>> THEN <<>> ELSE InsertDesc(Head(s), SortDesc(Tail(s)))

NonZeroResults(entry, n) == Slice0(SortDesc(PositiveScores(entry.scores)), n)

Drop(result, nonZeroResults) ==
    HasScore(result) /\ ~Includes(nonZeroResults, result.score) /\ result.score > 0

AnnotatedResults(entry, n) ==
    LET nonZeroResults == NonZeroResults(entry, n)
    IN  [i \in 1..Len(entry.scores) |->
            [drop |-> Drop(entry.scores[i], nonZeroResults)] @@ entry.scores[i]]

PlaceLabelZeroBased(place) == ToString(place - 1) \o "."

PlaceLabel(place) == ToString(place) \o "."

ThisPlaceLeq(place, totalScore, previousScore) ==
    IF totalScore <= previousScore THEN PlaceLabel(place) ELSE "-"

ThisPlace(place, totalScore, previousScore) ==
    IF totalScore < previousScore THEN PlaceLabel(place) ELSE "-"

RECURSIVE SumKept(_)
SumKept(results) ==
    IF results = <<>> THEN 0
    ELSE LET result == Head(results)
         IN  (IF HasScore(result) /\ ~result.drop THEN result.score ELSE 0)
                 + SumKept(Tail(results))

RankedEntryResummed(entry, results, thisPlace) ==
    [name |-> entry.name, totalScore |-> SumKept(results),
     scores |-> results, place |-> thisPlace]

RankedEntry(entry, results, thisPlace) ==
    [name |-> entry.name, totalScore |-> entry.totalScore,
     scores |-> results, place |-> thisPlace]

PushFront(entries, entry) == <<entry>> \o entries

Push(entries, entry) == Append(entries, entry)

\* data.forEach: i is the index of the entry visited next.
RECURSIVE ForEach(_, _, _, _, _, _)
ForEach(data, i, place0, previousScore, entries, n) ==
    IF i > Len(data) THEN entries
    ELSE LET entry == data[i]
             place == place0 + 1
             thisPlace == ThisPlace(place, entry.totalScore, previousScore)
             results == AnnotatedResults(entry, n)
         IN  ForEach(data, i + 1, place, entry.totalScore,
                     Push(entries, RankedEntry(entry, results, thisPlace)), n)

generateRanking(data, n) == ForEach(data, 1, 0, InitialPreviousScore, <<>>, n)

----------------------------------------------------------------------------
(* The Ranking component *)

InitState ==
    /\ selectedCategory = ""
    /\ isLoading = FALSE
    /\ ranking = <<>>
    /\ inflight = EmptyBag

\* One age class; every payload and every value of the events prop.
InitGen ==
    /\ categories = {CategoryNames[1]}
    /\ events \in (-2)..MaxEvents
    /\ db \in [categories -> PlaceInputs \cup DropInputs \cup SparseInputs]
    /\ InitState

\* Several age classes, to follow the selections and the responses.
Init ==
    /\ categories = {CategoryNames[i] : i \in 1..NumCategories}
    /\ events \in {-1, 3}
    /\ db \in [categories -> PageInputs]
    /\ InitState

\* onChange with an age class: the effect sets isLoading and issues a fetch.
SelectCategory(c) ==
    /\ c \in categories
    /\ c # selectedCategory
    /\ BagCardinality(inflight) < MaxInFlight
    /\ selectedCategory' = c
    /\ isLoading' = TRUE
    /\ inflight' = inflight (+) SetToBag({c})
    /\ UNCHANGED <<categories, events, db, ranking>>

\* onChange with the placeholder option: the effect clears the ranking.
ClearCategory ==
    /\ selectedCategory # ""
    /\ selectedCategory' = ""
    /\ ranking' = <<>>
    /\ UNCHANGED <<categories, events, db, isLoading, inflight>>

\* The response of a fetch for age class c arrives. The two then-callbacks
\* (setLoading(false), then generateRanking) run as consecutive microtasks,
\* with no render or event handler between them, so they are one step.
\* Nothing ties the response to the current selection.
Receive(c) ==
    /\ BagIn(c, inflight)
    /\ inflight' = inflight (-) SetToBag({c})
    /\ isLoading' = FALSE
    /\ ranking' = generateRanking(db[c], events)
    /\ UNCHANGED <<categories, events, db, selectedCategory>>

Next ==
    \/ \E c \in categories : SelectCategory(c)
    \/ ClearCategory
    \/ \E c \in categories : Receive(c)

Spec == Init /\ [][Next]_vars

SpecGen == InitGen /\ [][Next]_vars

----------------------------------------------------------------------------
(* Properties *)

NumericLabels == <<"1.", "2.", "3.", "4.", "5.", "6.">>

NonIncreasing(data) ==
    \A k \in 2..Len(data) : data[k].totalScore <= data[k - 1].totalScore

StrictlyDescending(data) ==
    \A k \in 2..Len(data) : data[k].totalScore < data[k - 1].totalScore

BelowSentinel(data) ==
    \A k \in 1..Len(data) : data[k].totalScore < 5001

Totals(list) == [k \in 1..Len(list) |-> list[k].totalScore]
Names(list) == [k \in 1..Len(list) |-> list[k].name]
Places(list) == [k \in 1..Len(list) |-> list[k].place]

Positive(result) == HasScore(result) /\ result.score > 0

\* The positive results of an entry that are left with drop = false.
Kept(entry) ==
    {i \in 1..Len(entry.scores) : Positive(entry.scores[i]) /\ ~entry.scores[i].drop}

\* How many positive results of the entry score strictly more than v.
Better(entry, v) ==
    Cardinality({i \in 1..Len(entry.scores) :
                    Positive(entry.scores[i]) /\ entry.scores[i].score > v})

PositiveCount(entry) ==
    Cardinality({i \in 1..Len(entry.scores) : Positive(entry.scores[i])})

RECURSIVE SumOfKept(_, _)
SumOfKept(entry, i) ==
    IF i > Len(entry.scores) THEN 0
    ELSE (IF i \in Kept(entry) THEN entry.scores[i].score ELSE 0)
            + SumOfKept(entry, i + 1)

\* C1: when a response whose totals are non-increasing and below the
\* sentinel is ranked, position k > 1 is labelled "k." if its total is
\* strictly less than the total at k-1 and "-" if the two are equal; strictly
\* descending totals are labelled "1.", "2.", "3.", ...
C1_PlaceLabels ==
    [][\A c \in categories :
        (Receive(c) /\ NonIncreasing(db[c]) /\ BelowSentinel(db[c])) =>
            /\ Len(ranking') = Len(db[c])
            /\ \A k \in 2..Len(db[c]) :
                ranking'[k].place =
                    IF db[c][k].totalScore < db[c][k - 1].totalScore
                    THEN NumericLabels[k] ELSE "-"
            /\ StrictlyDescending(db[c]) =>
                \A k \in 1..Len(db[c]) : ranking'[k].place = NumericLabels[k]]_vars

C1_Witness ==
    /\ Totals(ranking) = <<50, 40, 40>>
    /\ Places(ranking) = <<"1.", "2.", "-">>

TieInput ==
    <<RawEntry("A", 40, <<Scored(1, 40)>>),
      RawEntry("B", 40, <<Scored(1, 40)>>),
      RawEntry("C", 30, <<Scored(1, 30)>>)>>

\* C2 as stated: athletes A, B, C with totals 40, 40, 30 are output in the
\* order A, B, C with the labels "1.", "-", "2.".
C2_TieExampleAsStated ==
    [][\A c \in categories :
        (Receive(c) /\ db[c] = TieInput /\ events >= 1) =>
            /\ Names(ranking') = <<"A", "B", "C">>
            /\ Places(ranking') = <<"1.", "-", "2.">>]_vars

\* C2 amended: athletes A, B, C with totals 40, 40, 30 are output in the
\* order A, B, C with the labels "1.", "-", "3.": the tied entry B uses up
\* position 2.
C2_TieExample ==
    [][\A c \in categories :
        (Receive(c) /\ db[c] = TieInput /\ events >= 1) =>
            /\ Names(ranking') = <<"A", "B", "C">>
            /\ Places(ranking') = <<"1.", "-", "3.">>]_vars

C2_Witness ==
    /\ Names(ranking) = <<"A", "B", "C">>
    /\ Totals(ranking) = <<40, 40, 30>>
    /\ ranking[3].place = "3."

\* C3: for N >= 0 a result is marked dropped exactly when its score is
\* positive and N or more of the athlete's positive results score strictly
\* more (its value is not among the first N of the positive scores in
\* descending order); zero or absent scores are never dropped, N = 0 drops
\* every positive score, N >= the number of positive scores drops none.
C3_DropFlags ==
    events >= 0 =>
        \A k \in 1..Len(ranking) :
            LET entry == ranking[k] IN
            /\ \A i \in 1..Len(entry.scores) :
                LET result == entry.scores[i] IN
                /\ result.drop =
                    (Positive(result) /\ Better(entry, result.score) >= events)
                /\ ~Positive(result) => ~result.drop
                /\ (events = 0 /\ Positive(result)) => result.drop
            /\ events >= PositiveCount(entry) =>
                \A i \in 1..Len(entry.scores) : ~entry.scores[i].drop

C3_Witness ==
    /\ events = 3
    /\ Len(ranking) = 1
    /\ ranking[1].scores =
        <<[eventId |-> 1, score |-> 100, drop |-> FALSE],
          [eventId |-> 2, score |-> 90, drop |-> FALSE],
          [eventId |-> 3, score |-> 80, drop |-> FALSE],
          [eventId |-> 4, score |-> 70, drop |-> TRUE]>>

SortedByTotal(list) ==
    \A i, j \in 1..Len(list) : i < j => list[i].totalScore >= list[j].totalScore

C6_NegativeEventsRejected == events < 0 => ranking = <<>>

\* C7: for N >= 0 at most N positive results of an entry are left with
\* drop = false.
C7_AtMostNKept ==
    events >= 0 =>
        \A k \in 1..Len(ranking) : Cardinality(Kept(ranking[k])) <= events

\* C8: the first entry of a non-empty ranking is labelled "1.".
C8_FirstIsOne == ranking # <<>> => ranking[1].place = "1."

\* C9: once no request is in flight, the ranking is the one computed from the
\* response for the selected category, and empty when none is selected.
C9_RankingOfSelected ==
    inflight = EmptyBag =>
        ranking = IF selectedCategory = "" THEN <<>>
                  ELSE generateRanking(db[selectedCategory], events)

\* C10: the "no results" message (category selected, not loading, ranking
\* empty) shows only when the request for the selected category has
\* completed with an empty list.
C10_NoResultsOnlyWhenAnswered ==
    (selectedCategory # "" /\ ~isLoading /\ ranking = <<>>) =>
        /\ ~BagIn(selectedCategory, inflight)
        /\ db[selectedCategory] = <<>>

====
